---------------------------- MODULE Spec2Model ----------------------------
(***************************************************************************)
(* The execution-trace decoder of the VM (processor/src/decoder/mod.rs):   *)
(* block stack, span context and the rows it appends, driven by the        *)
(* block-lifecycle events of the executor.                                 *)
(***************************************************************************)
EXTENDS Integers, Sequences, FiniteSets, TLC

VARIABLES
    block_stack,    \* Decoder.block_stack.blocks : Seq of BlockInfo
    span_context,   \* Decoder.span_context : None or a SpanContext
    trace,          \* Decoder.trace : the rows appended so far
    status,         \* "running", "error" (an Err returned), "panicked"
    hasher_addr,    \* the address the hasher hands out at its next call
    hasher_calls,   \* the inputs of the hasher.hash calls made so far
    stack_ops,      \* the operations executed on the stack machine so far
    debug_build,    \* whether debug assertions and overflow checks are compiled in
    events,         \* the events delivered to the decoder, in order
    executor,       \* who delivers the events: "any" caller, or a "program" walk
    walker,         \* the program walk's path of open blocks, the root first
    trace_state,    \* a TraceState of the AIR (air/trace_state.rs), once constructed
    view_log        \* the last call on trace_state, the last row bound and the bits set since

\* the decoder with its collaborators and callers
decoder_vars == <<block_stack, span_context, trace, status, hasher_addr, hasher_calls,
                  stack_ops, debug_build, events, executor, walker>>

\* the trace state view
view_vars == <<trace_state, view_log>>

vars == <<decoder_vars, view_vars>>

-----------------------------------------------------------------------------
(* Bounds of the model.                                                    *)

\* the number of events an arbitrary caller delivers
MaxEvents == 4

\* the number of times a program walk repeats a loop body
MaxRepeat == 1

-----------------------------------------------------------------------------
(* Felt: an element of the 64-bit prime field, p = 2^64 - 2^32 + 1, held   *)
(* as its canonical integer in four 16-bit limbs, least significant first. *)

LimbBase == 2 ^ 16

\* Operation::OP_BITS, the width of an opcode
NUM_OP_BITS == 7

\* the rows of one hasher cycle
HASHER_CYCLE_LEN == 8

\* the op groups of a batch the hasher absorbs
HASHER_WIDTH == 8

\* p = 2^64 - 2^32 + 1
Modulus == <<1, 0, 65535, 65535>>

\* the u64 or Felt of a small natural number
FeltOf(n) == <<n % LimbBase, (n \div LimbBase) % LimbBase, 0, 0>>

FeltZERO == FeltOf(0)

FeltONE == FeltOf(1)

\* the natural number of a Felt below 2^31
ToInt(f) == f[1] + LimbBase * f[2]

IsSmall(f) == f[3] = 0 /\ f[4] = 0 /\ f[2] < 32768

\* a < b on 64-bit values
U64Less(a, b) ==
    \/ a[4] < b[4]
    \/ a[4] = b[4] /\ a[3] < b[3]
    \/ a[4] = b[4] /\ a[3] = b[3] /\ a[2] < b[2]
    \/ a[4] = b[4] /\ a[3] = b[3] /\ a[2] = b[2] /\ a[1] < b[1]

\* a - b modulo 2^64, with the borrow out
U64Sub(a, b) ==
    LET d1 == a[1] - b[1]
        b1 == IF d1 < 0 THEN 1 ELSE 0
        d2 == a[2] - b[2] - b1
        b2 == IF d2 < 0 THEN 1 ELSE 0
        d3 == a[3] - b[3] - b2
        b3 == IF d3 < 0 THEN 1 ELSE 0
        d4 == a[4] - b[4] - b3
        b4 == IF d4 < 0 THEN 1 ELSE 0
    IN  [val |-> << (d1 + LimbBase) % LimbBase, (d2 + LimbBase) % LimbBase,
                    (d3 + LimbBase) % LimbBase, (d4 + LimbBase) % LimbBase >>,
         borrow |-> b4]

\* a + b modulo 2^64, with the carry out
U64Add(a, b) ==
    LET s1 == a[1] + b[1]
        c1 == s1 \div LimbBase
        s2 == a[2] + b[2] + c1
        c2 == s2 \div LimbBase
        s3 == a[3] + b[3] + c2
        c3 == s3 \div LimbBase
        s4 == a[4] + b[4] + c3
        c4 == s4 \div LimbBase
    IN  [val |-> << s1 % LimbBase, s2 % LimbBase, s3 % LimbBase, s4 % LimbBase >>,
         carry |-> c4]

\* a >> NUM_OP_BITS on a 64-bit value
U64Shr(a) ==
    LET lo == 2 ^ NUM_OP_BITS
        hi == LimbBase \div lo
    IN  << (a[1] \div lo) + (a[2] % lo) * hi,
           (a[2] \div lo) + (a[3] % lo) * hi,
           (a[3] \div lo) + (a[4] % lo) * hi,
           a[4] \div lo >>

\* Felt::new: the field element of a 64-bit value
FeltNew(u) == IF U64Less(u, Modulus) THEN u ELSE U64Sub(u, Modulus).val

\* a + b in the field
FeltAdd(a, b) ==
    LET s == U64Add(a, b)
    IN  IF s.carry = 1 \/ ~U64Less(s.val, Modulus)
        THEN U64Sub(s.val, Modulus).val
        ELSE s.val

\* a - b in the field
FeltSub(a, b) ==
    IF U64Less(a, b)
    THEN U64Add(U64Sub(Modulus, b).val, a).val
    ELSE U64Sub(a, b).val

-----------------------------------------------------------------------------
(* The collaborators' data: operations, op batches and code blocks.        *)

\* a Word of four field elements holding a digest
WordOf(n) == <<FeltOf(n), FeltOf(n + 1), FeltOf(n + 2), FeltOf(n + 3)>>

\* [Felt::ZERO; 4]
ZeroWord == <<FeltZERO, FeltZERO, FeltZERO, FeltZERO>>

\* an operation with an opcode
Op(n) == [opcode |-> n, is_decorator |-> FALSE]

\* an operation without opcode (an assembler hint)
Decorator == [opcode |-> 0, is_decorator |-> TRUE]

Noop == Op(0)

RECURSIVE PackInt(_)
\* the value of an op group packing the opcodes os, the first lowest
PackInt(os) ==
    IF os = <<>> THEN 0 ELSE Head(os) + (2 ^ NUM_OP_BITS) * PackInt(Tail(os))

Pack(os) == FeltOf(PackInt(os))

\* OpBatch: groups() is [Felt; 8], num_groups() the number in use
Batch(gs) ==
    [groups |-> [i \in 1..8 |-> IF i <= Len(gs) THEN gs[i] ELSE FeltZERO],
     num_groups |-> Len(gs)]

BatchA == Batch(<<Pack(<<1, 2, 3>>)>>)

BatchB0 == Batch(<<Pack(<<1, 2>>), Pack(<<3>>), Pack(<<2>>)>>)

BatchB1 == Batch(<<Pack(<<2, 1>>), Pack(<<3>>), Pack(<<2>>)>>)

\* the code blocks of the programs run: id -> block
Blocks ==
    [id \in 1..6 |->
        CASE id = 1 -> [kind |-> "Span", hash |-> WordOf(10),
                        op_batches |-> <<BatchA>>]
          [] id = 2 -> [kind |-> "Span", hash |-> WordOf(20),
                        op_batches |-> <<BatchB0, BatchB1>>]
          [] id = 3 -> [kind |-> "Join", hash |-> WordOf(30),
                        first |-> 2, second |-> 1]
          [] id = 4 -> [kind |-> "Split", hash |-> WordOf(40),
                        on_true |-> 3, on_false |-> 1]
          [] id = 5 -> [kind |-> "Loop", hash |-> WordOf(50), body |-> 1]
          [] id = 6 -> [kind |-> "Join", hash |-> WordOf(60),
                        first |-> 4, second |-> 5]]

BlockIds == DOMAIN Blocks

Joins == {b \in BlockIds : Blocks[b].kind = "Join"}

Splits == {b \in BlockIds : Blocks[b].kind = "Split"}

Loops == {b \in BlockIds : Blocks[b].kind = "Loop"}

Spans == {b \in BlockIds : Blocks[b].kind = "Span"}

\* the op batches a respan can be handed
BatchList == <<BatchA, BatchB0, BatchB1>>

\* the op groups a start_op_group can be handed
GroupList == <<Pack(<<3>>), Pack(<<2>>), FeltZERO, Pack(<<1, 2, 3>>)>>

\* the operations an execute_user_op can be handed
OpList == <<Noop, Op(1), Op(2), Op(3), Decorator>>

-----------------------------------------------------------------------------
(* BlockStack and BlockInfo.                                               *)

\* a push that takes the root's address for the parent's
PushParentRoot(blocks) ==
    IF blocks = <<>> THEN FeltZERO ELSE blocks[1].addr

\* the parent_addr BlockStack::push gives the new entry
PushParent(blocks) ==
    IF blocks = <<>> THEN FeltZERO ELSE blocks[Len(blocks)].addr

\* BlockStack::push: the blocks after the push
Push(blocks, addr) ==
    Append(blocks, [addr |-> addr, parent_addr |-> PushParent(blocks)])

\* BlockStack::pop: the blocks left (the stack is not empty)
Pop(blocks) == SubSeq(blocks, 1, Len(blocks) - 1)

\* a peek that returns the bottom entry
PeekBottom(blocks) == blocks[1]

\* BlockStack::peek, and the entry pop returns
Peek(blocks) == blocks[Len(blocks)]

-----------------------------------------------------------------------------
(* SpanContext and the helper functions.                                   *)

None == [none |-> TRUE]

SpanContext(g, n) == [group_ops_left |-> g, num_groups_left |-> n]

\* usize::next_power_of_two
NextPowerOfTwo(n) == CHOOSE q \in {2 ^ k : k \in 0..4} :
    q >= n /\ \A r \in {2 ^ k : k \in 0..4} : r >= n => q <= r

RECURSIVE SumGroups(_)
\* the fold of get_num_op_groups_in_span over the batches
SumGroups(batches) ==
    IF batches = <<>> THEN 0
    ELSE NextPowerOfTwo(Head(batches).num_groups) + SumGroups(Tail(batches))

\* a count of the groups without the rounding to a power of two
NumOpGroupsNotRounded(b) ==
    FeltOf(Blocks[b].op_batches[1].num_groups
           + (IF Len(Blocks[b].op_batches) > 1
              THEN Blocks[b].op_batches[2].num_groups ELSE 0))

\* get_num_op_groups_in_span
GetNumOpGroupsInSpan(b) == FeltOf(SumGroups(Blocks[b].op_batches))

\* the subtraction of remove_opcode_from_group overflows u64
RemoveOverflows(op_group, op) == U64Less(op_group, FeltOf(op.opcode))

\* a removal that subtracts the opcode and forgets the shift
RemoveOpcodeNoShift(op_group, op) ==
    FeltNew(U64Sub(op_group, FeltOf(op.opcode)).val)

\* remove_opcode_from_group (wrapping, as a build without overflow checks)
RemoveOpcodeFromGroup(op_group, op) ==
    FeltNew(U64Shr(U64Sub(op_group, FeltOf(op.opcode)).val))

\* the context start_span sets
StartSpanContext(b) ==
    SpanContext(Blocks[b].op_batches[1].groups[1],
                FeltSub(GetNumOpGroupsInSpan(b), FeltONE))

\* a respan that starts the count again from the new batch
RespanContextReinit(ctx, batch) ==
    SpanContext(batch.groups[1], FeltOf(batch.num_groups - 1))

\* the context after respan
RespanContext(ctx, batch) ==
    SpanContext(batch.groups[1], FeltSub(ctx.num_groups_left, FeltONE))

\* the context after consume_imm_value
ConsumeImmContext(ctx) ==
    SpanContext(ctx.group_ops_left, FeltSub(ctx.num_groups_left, FeltONE))

\* a start_op_group that leaves the count alone
StartOpGroupContextNoCount(ctx, op_group) ==
    SpanContext(op_group, ctx.num_groups_left)

\* the context after start_op_group
StartOpGroupContext(ctx, op_group) ==
    SpanContext(op_group, FeltSub(ctx.num_groups_left, FeltONE))

\* an execute_user_op that also takes the group off the count
ExecuteUserOpContextCounting(ctx, op) ==
    SpanContext(RemoveOpcodeFromGroup(ctx.group_ops_left, op),
                FeltSub(ctx.num_groups_left, FeltONE))

\* the context after execute_user_op
ExecuteUserOpContext(ctx, op) ==
    SpanContext(RemoveOpcodeFromGroup(ctx.group_ops_left, op), ctx.num_groups_left)

\* an end_span that leaves the context in place
EndSpanContextKept(ctx) == ctx

\* the context after end_span
EndSpanContext(ctx) == None

\* a respan that moves the entry on by one row instead of one cycle
RespanBlocksByOne(blocks) ==
    Push(Pop(blocks), FeltAdd(Peek(blocks).addr, FeltONE))

\* the block stack after respan's pop and push
RespanBlocks(blocks) ==
    Push(Pop(blocks), FeltAdd(Peek(blocks).addr, FeltOf(HASHER_CYCLE_LEN)))

-----------------------------------------------------------------------------
(* DecoderTrace: one row per append.                                       *)

AppendRow(addr, op, h1, h2) ==
    [op |-> op, addr |-> addr, h1 |-> h1, h2 |-> h2]

AppendSpanStart(parent_addr, first_op_batch, num_op_groups) ==
    [op |-> "SPAN", addr |-> parent_addr, groups |-> first_op_batch,
     num_groups |-> num_op_groups]

AppendRespan(groups) == [op |-> "RESPAN", groups |-> groups]

AppendUserOp(op, addr, parent_addr, num_groups_left, group_ops_left) ==
    [op |-> "USEROP", user_op |-> op, addr |-> addr, parent_addr |-> parent_addr,
     num_groups_left |-> num_groups_left, group_ops_left |-> group_ops_left]

AppendSpanEnd(block_hash, extra) ==
    [op |-> "END", h1 |-> block_hash, extra |-> extra]

-----------------------------------------------------------------------------
(* The program walk: the executor's recursion over the block tree.  A      *)
(* frame is an open block: the address the hasher gave it, how far its     *)
(* children have run and, for a span, the batch and group being executed   *)
(* with the opcodes still packed in that group.                            *)

Top(w) == w[Len(w)]

Frame(b, addr, cond) ==
    [block |-> b, addr |-> addr,
     step |-> IF Blocks[b].kind = "Loop" /\ cond = 0 THEN 2 ELSE 0,
     taken |-> IF Blocks[b].kind = "Split"
               THEN (IF cond = 1 THEN Blocks[b].on_true ELSE Blocks[b].on_false)
               ELSE 0,
     batch |-> 1, group |-> 1, repeats |-> 0,
     rest |-> IF Blocks[b].kind = "Span"
              THEN ToInt(Blocks[b].op_batches[1].groups[1]) ELSE 0]

\* the child the open block f runs next, 0 when none
NextChild(f) ==
    LET blk == Blocks[f.block]
    IN  CASE blk.kind = "Join" /\ f.step = 0 -> blk.first
          [] blk.kind = "Join" /\ f.step = 1 -> blk.second
          [] blk.kind = "Split" /\ f.step = 0 -> f.taken
          [] blk.kind = "Loop" /\ f.step = 0 -> blk.body
          [] OTHER -> 0

\* the walk may start block b now
CanStart(b) ==
    \/ executor = "any"
    \/ executor = "program" /\ walker = <<>> /\ events = <<>>
    \/ executor = "program" /\ walker # <<>> /\ NextChild(Top(walker)) = b

\* the walk after the start of block b at address addr
WalkStart(b, addr, cond) ==
    IF executor = "any" THEN walker
    ELSE IF walker = <<>> THEN <<Frame(b, addr, cond)>>
    ELSE Append([walker EXCEPT ![Len(walker)].step = @ + 1], Frame(b, addr, cond))

\* the span on top of the walk has run the last group of its batch
BatchDone(f) ==
    /\ f.rest = 0
    /\ f.group = Blocks[f.block].op_batches[f.batch].num_groups

\* the walk may end block b now
CanEnd(b) ==
    \/ executor = "any"
    \/ /\ executor = "program" /\ walker # <<>>
       /\ LET f == Top(walker)
          IN  /\ f.block = b
              /\ CASE Blocks[b].kind = "Join" -> f.step = 2
                   [] Blocks[b].kind = "Split" -> f.step = 1
                   [] Blocks[b].kind = "Loop" -> f.step \in {1, 2}
                   [] Blocks[b].kind = "Span" ->
                        BatchDone(f) /\ f.batch = Len(Blocks[b].op_batches)

WalkEnd == IF executor = "any" THEN walker ELSE Pop(walker)

\* the walk is inside a span
InSpanWalk == executor = "program" /\ walker # <<>> /\ Blocks[Top(walker).block].kind = "Span"

-----------------------------------------------------------------------------
(* Steps shared by the entry points.                                       *)

Running == status = "running"

\* an arbitrary caller delivers at most MaxEvents events
Budget == executor = "program" \/ Len(events) < MaxEvents

\* event e with its argument (a block, batch, group or operation) is delivered
Deliver(e, arg) == events' = Append(events, [e |-> e, arg |-> arg])

\* a panic: the run ends, with what the handler had done before it
Panicked == status' = "panicked"

\* [Felt::ZERO; 12]
ZeroState == [i \in 1..12 |-> FeltZERO]

\* the hasher state start_span_block builds from the first batch
SpanState(b) ==
    [i \in 1..12 |-> IF i <= HASHER_WIDTH
                     THEN Blocks[b].op_batches[1].groups[i] ELSE FeltZERO]

\* the address of the hasher's first row
HasherFirstAddr == 1

\* hasher.hash: the call is recorded and the next address is one cycle on
HasherHash(state) ==
    /\ hasher_calls' = Append(hasher_calls, state)
    /\ hasher_addr' = FeltAdd(hasher_addr, FeltOf(HASHER_CYCLE_LEN))

\* an error returned only after the hasher was called
ReturnErrAfterHash ==
    /\ status' = "error"
    /\ HasherHash(ZeroState)
    /\ UNCHANGED <<block_stack, span_context, trace,
                   stack_ops, debug_build, events, executor, walker>>

\* execute_op returned Err and `?` returned it to the caller
ReturnErr ==
    /\ status' = "error"
    /\ UNCHANGED <<block_stack, span_context, trace, hasher_addr, hasher_calls,
                   stack_ops, debug_build, events, executor, walker>>

\* an execute_op that runs the operation twice
ExecuteOpTwice(op) == stack_ops' = stack_ops \o <<op, op>>

\* execute_op succeeded on the stack machine
ExecuteOp(op) == stack_ops' = Append(stack_ops, op)

-----------------------------------------------------------------------------
(* Decoder: the handlers of the events.                                    *)

\* Decoder::start_join
start_join(b, addr) ==
    /\ block_stack' = Push(block_stack, addr)
    /\ trace' = Append(trace, AppendRow(PushParent(block_stack), "JOIN",
                          Blocks[Blocks[b].first].hash, Blocks[Blocks[b].second].hash))
    /\ UNCHANGED <<span_context, status>>

\* Decoder::end_join
end_join(b) ==
    IF block_stack = <<>>
    THEN Panicked /\ UNCHANGED <<block_stack, span_context, trace>>
    ELSE /\ block_stack' = Pop(block_stack)
         /\ trace' = Append(trace, AppendRow(Peek(block_stack).addr, "END",
                               Blocks[b].hash, ZeroWord))
         /\ UNCHANGED <<span_context, status>>

\* Decoder::start_split
start_split(b, addr, condition) ==
    /\ block_stack' = Push(block_stack, addr)
    /\ trace' = Append(trace, AppendRow(PushParent(block_stack), "SPLIT",
                          Blocks[Blocks[b].on_true].hash, Blocks[Blocks[b].on_false].hash))
    /\ UNCHANGED <<span_context, status>>

\* an end_split that appends its row and leaves the entry on the stack
EndSplitKeepsEntry(b) ==
    IF block_stack = <<>>
    THEN Panicked /\ UNCHANGED <<block_stack, span_context, trace>>
    ELSE /\ trace' = Append(trace, AppendRow(Peek(block_stack).addr, "END",
                               Blocks[b].hash, ZeroWord))
         /\ UNCHANGED <<block_stack, span_context, status>>

\* Decoder::end_split
end_split(b) ==
    IF block_stack = <<>>
    THEN Panicked /\ UNCHANGED <<block_stack, span_context, trace>>
    ELSE /\ block_stack' = Pop(block_stack)
         /\ trace' = Append(trace, AppendRow(Peek(block_stack).addr, "END",
                               Blocks[b].hash, ZeroWord))
         /\ UNCHANGED <<span_context, status>>

\* Decoder::start_loop, Decoder::repeat, Decoder::end_loop: empty bodies
loop_event ==
    UNCHANGED <<block_stack, span_context, trace, status>>

\* Decoder::start_span
start_span(b, addr) ==
    IF debug_build /\ span_context # None
    THEN Panicked /\ UNCHANGED <<block_stack, span_context, trace>>
    ELSE /\ block_stack' = Push(block_stack, addr)
         /\ trace' = Append(trace, AppendSpanStart(PushParent(block_stack),
                               Blocks[b].op_batches[1].groups, GetNumOpGroupsInSpan(b)))
         /\ span_context' = StartSpanContext(b)
         /\ UNCHANGED status

\* Decoder::respan
respan(op_batch) ==
    /\ trace' = Append(trace, AppendRespan(op_batch.groups))
    /\ IF block_stack = <<>>
       THEN Panicked /\ UNCHANGED <<block_stack, span_context>>
       ELSE /\ block_stack' = RespanBlocks(block_stack)
            /\ IF span_context = None
               THEN Panicked /\ UNCHANGED span_context
               ELSE /\ span_context' = RespanContext(span_context, op_batch)
                    /\ UNCHANGED status

\* Decoder::consume_imm_value
consume_imm_value ==
    IF span_context = None
    THEN Panicked /\ UNCHANGED <<block_stack, span_context, trace>>
    ELSE /\ span_context' = ConsumeImmContext(span_context)
         /\ UNCHANGED <<block_stack, trace, status>>

\* Decoder::start_op_group
start_op_group(op_group) ==
    IF span_context = None
    THEN Panicked /\ UNCHANGED <<block_stack, span_context, trace>>
    ELSE /\ span_context' = StartOpGroupContext(span_context, op_group)
         /\ UNCHANGED <<block_stack, trace, status>>

\* execute_user_op panics: a decorator, an empty stack, no span, or the
\* subtraction overflowing in a build with overflow checks
UserOpPanics(op) ==
    \/ op.is_decorator
    \/ block_stack = <<>>
    \/ span_context = None
    \/ debug_build /\ RemoveOverflows(span_context.group_ops_left, op)

\* Decoder::execute_user_op
execute_user_op(op) ==
    IF UserOpPanics(op)
    THEN Panicked /\ UNCHANGED <<block_stack, span_context, trace>>
    ELSE /\ span_context' = ExecuteUserOpContext(span_context, op)
         /\ trace' = Append(trace, AppendUserOp(op, Peek(block_stack).addr,
                               Peek(block_stack).parent_addr,
                               span_context.num_groups_left,
                               ExecuteUserOpContext(span_context, op).group_ops_left))
         /\ UNCHANGED <<block_stack, status>>

\* Decoder::end_span
end_span(b) ==
    IF block_stack = <<>>
    THEN Panicked /\ UNCHANGED <<block_stack, span_context, trace>>
    ELSE /\ block_stack' = Pop(block_stack)
         /\ trace' = Append(trace, AppendSpanEnd(Blocks[b].hash, FeltZERO))
         /\ span_context' = EndSpanContext(span_context)
         /\ UNCHANGED status

-----------------------------------------------------------------------------
(* TraceState (air/trace_state.rs): the view of one flattened trace row.   *)
(* A cell is an element of the 128-bit field, written as the integer of    *)
(* least absolute value congruent to it (-1 is the element p - 1); the     *)
(* sums and products taken here stay far below p, so they are exact.       *)

\* the bounds of the depths a TraceState is constructed with
MaxCtxDepth == 2

MaxLoopDepth == 2

MaxStackDepth == 9

OP_COUNTER_IDX == 0

SPONGE_WIDTH == 4

NUM_CF_OP_BITS == 3

NUM_LD_OP_BITS == 5

NUM_HD_OP_BITS == 2

MIN_CONTEXT_DEPTH == 1

MIN_LOOP_DEPTH == 1

MIN_STACK_DEPTH == 8

\* the ranges of a row's cells, from start (counted from 0) up to end, excluded
OP_SPONGE_RANGE == [start |-> OP_COUNTER_IDX + 1, end |-> OP_COUNTER_IDX + 1 + SPONGE_WIDTH]

CF_OP_BITS_RANGE == [start |-> OP_SPONGE_RANGE.end, end |-> OP_SPONGE_RANGE.end + NUM_CF_OP_BITS]

LD_OP_BITS_RANGE == [start |-> CF_OP_BITS_RANGE.end, end |-> CF_OP_BITS_RANGE.end + NUM_LD_OP_BITS]

HD_OP_BITS_RANGE == [start |-> LD_OP_BITS_RANGE.end, end |-> LD_OP_BITS_RANGE.end + NUM_HD_OP_BITS]

\* NUM_OP_BITS of trace_state.rs: the op bits of the three regions
NUM_VIEW_OP_BITS == NUM_CF_OP_BITS + NUM_LD_OP_BITS + NUM_HD_OP_BITS

\* cmp::max
Max(a, b) == IF a >= b THEN a ELSE b

\* vec![E::ZERO; n]
Zeros(n) == [i \in 1..n |-> 0]

\* &state[start..end]: the cells of a row from start (counted from 0) up to end
Slice(state, start, end) == [i \in 1..(end - start) |-> state[start + i]]

\* a vector of n zeros with its first depth cells copied from the row at start
StackOf(state, start, depth, n) ==
    [i \in 1..n |-> IF i <= depth THEN state[start + i] ELSE 0]

\* no TraceState has been constructed
NoTraceState == [built |-> FALSE, panicked |-> FALSE]

\* a slice out of range or of the wrong length: the call panicked
PanickedTraceState == [built |-> FALSE, panicked |-> TRUE]

\* no call has been made
NoCalls == [op |-> "none", row |-> <<>>, bits |-> <<>>, updated |-> FALSE]

\* a constructor that allocates the stacks at their depths, without padding
NewUnpadded(ctx_depth, loop_depth, stack_depth) ==
    [built |-> TRUE, panicked |-> FALSE,
     op_counter |-> 0,
     sponge |-> Zeros(SPONGE_WIDTH),
     cf_op_bits |-> Zeros(NUM_CF_OP_BITS),
     ld_op_bits |-> Zeros(NUM_LD_OP_BITS),
     hd_op_bits |-> Zeros(NUM_HD_OP_BITS),
     ctx_stack |-> Zeros(ctx_depth),
     loop_stack |-> Zeros(loop_depth),
     user_stack |-> Zeros(stack_depth),
     ctx_depth |-> ctx_depth, loop_depth |-> loop_depth, stack_depth |-> stack_depth]

\* TraceState::new
New(ctx_depth, loop_depth, stack_depth) ==
    [built |-> TRUE, panicked |-> FALSE,
     op_counter |-> 0,
     sponge |-> Zeros(SPONGE_WIDTH),
     cf_op_bits |-> Zeros(NUM_CF_OP_BITS),
     ld_op_bits |-> Zeros(NUM_LD_OP_BITS),
     hd_op_bits |-> Zeros(NUM_HD_OP_BITS),
     ctx_stack |-> Zeros(Max(ctx_depth, MIN_CONTEXT_DEPTH)),
     loop_stack |-> Zeros(Max(loop_depth, MIN_LOOP_DEPTH)),
     user_stack |-> Zeros(Max(stack_depth, MIN_STACK_DEPTH)),
     ctx_depth |-> ctx_depth, loop_depth |-> loop_depth, stack_depth |-> stack_depth]

\* the width of a row for the depths
WidthOf(ctx_depth, loop_depth, stack_depth) ==
    HD_OP_BITS_RANGE.end + ctx_depth + loop_depth + stack_depth

\* TraceState::from_vec (copy_from_slice panics unless the lengths agree)
FromVec(ctx_depth, loop_depth, stack_depth, state) ==
    IF Len(state) # WidthOf(ctx_depth, loop_depth, stack_depth)
    THEN PanickedTraceState
    ELSE LET ctx_stack_end == HD_OP_BITS_RANGE.end + ctx_depth
             loop_stack_end == ctx_stack_end + loop_depth
         IN  [built |-> TRUE, panicked |-> FALSE,
              op_counter |-> state[OP_COUNTER_IDX + 1],
              sponge |-> Slice(state, OP_SPONGE_RANGE.start, OP_SPONGE_RANGE.end),
              cf_op_bits |-> Slice(state, CF_OP_BITS_RANGE.start, CF_OP_BITS_RANGE.end),
              ld_op_bits |-> Slice(state, LD_OP_BITS_RANGE.start, LD_OP_BITS_RANGE.end),
              hd_op_bits |-> Slice(state, HD_OP_BITS_RANGE.start, HD_OP_BITS_RANGE.end),
              ctx_stack |-> StackOf(state, HD_OP_BITS_RANGE.end, ctx_depth,
                                    Max(ctx_depth, MIN_CONTEXT_DEPTH)),
              loop_stack |-> StackOf(state, ctx_stack_end, loop_depth,
                                     Max(loop_depth, MIN_LOOP_DEPTH)),
              user_stack |-> StackOf(state, loop_stack_end, stack_depth,
                                     Max(stack_depth, MIN_STACK_DEPTH)),
              ctx_depth |-> ctx_depth, loop_depth |-> loop_depth,
              stack_depth |-> stack_depth]

\* TraceState::width
Width(ts) == HD_OP_BITS_RANGE.end + ts.ctx_depth + ts.loop_depth + ts.stack_depth

\* an op_code that takes hd_op_bits[0] for 64 and hd_op_bits[1] for 32
OpCodeSwapped(ts) ==
    ts.ld_op_bits[1] + ts.ld_op_bits[2] * 2 + ts.ld_op_bits[3] * 4
        + ts.ld_op_bits[4] * 8 + ts.ld_op_bits[5] * 16
        + ts.hd_op_bits[1] * 64 + ts.hd_op_bits[2] * 32

\* TraceState::op_code
OpCode(ts) ==
    ts.ld_op_bits[1] + ts.ld_op_bits[2] * 2 + ts.ld_op_bits[3] * 4
        + ts.ld_op_bits[4] * 8 + ts.ld_op_bits[5] * 16
        + ts.hd_op_bits[1] * 32 + ts.hd_op_bits[2] * 64

\* TraceState::set_op_bits
SetOpBits(ts, bits) ==
    [ts EXCEPT !.cf_op_bits = Slice(bits, 0, 3),
               !.ld_op_bits = Slice(bits, 3, 8),
               !.hd_op_bits = Slice(bits, 8, Len(bits))]

\* a void flag that multiplies the first two bits only
VoidOpFlagOfTwo(ts) == ts.cf_op_bits[1] * ts.cf_op_bits[2]

\* TraceState::get_void_op_flag
GetVoidOpFlag(ts) == ts.cf_op_bits[1] * ts.cf_op_bits[2] * ts.cf_op_bits[3]

\* a to_vec that emits the stacks with their padding
ToVecPadded(ts) ==
    <<ts.op_counter>> \o ts.sponge \o ts.cf_op_bits \o ts.ld_op_bits \o ts.hd_op_bits
        \o ts.ctx_stack \o ts.loop_stack \o ts.user_stack

\* TraceState::to_vec
ToVec(ts) ==
    <<ts.op_counter>> \o ts.sponge \o ts.cf_op_bits \o ts.ld_op_bits \o ts.hd_op_bits
        \o SubSeq(ts.ctx_stack, 1, ts.ctx_depth)
        \o SubSeq(ts.loop_stack, 1, ts.loop_depth)
        \o SubSeq(ts.user_stack, 1, ts.stack_depth)

\* an update that rebinds the counter, the sponge and the op bits, and
\* leaves the three stacks as they were
UpdateFixedRegions(ts, row) ==
    IF Len(row) < Width(ts)
    THEN PanickedTraceState
    ELSE [ts EXCEPT
             !.op_counter = row[OP_COUNTER_IDX + 1],
             !.sponge = [i \in DOMAIN ts.sponge |-> row[OP_SPONGE_RANGE.start + i]],
             !.cf_op_bits = [i \in DOMAIN ts.cf_op_bits |-> row[CF_OP_BITS_RANGE.start + i]],
             !.ld_op_bits = [i \in DOMAIN ts.ld_op_bits |-> row[LD_OP_BITS_RANGE.start + i]],
             !.hd_op_bits = [i \in DOMAIN ts.hd_op_bits |-> row[HD_OP_BITS_RANGE.start + i]]]

\* TraceState::update (indexing past the end of the row panics)
Update(ts, row) ==
    IF Len(row) < Width(ts)
    THEN PanickedTraceState
    ELSE LET ctx_stack_start == HD_OP_BITS_RANGE.end
             ctx_stack_end == ctx_stack_start + ts.ctx_depth
             loop_stack_end == ctx_stack_end + ts.loop_depth
         IN  [ts EXCEPT
                 !.op_counter = row[OP_COUNTER_IDX + 1],
                 !.sponge = [i \in DOMAIN ts.sponge |-> row[OP_SPONGE_RANGE.start + i]],
                 !.cf_op_bits = [i \in DOMAIN ts.cf_op_bits |-> row[CF_OP_BITS_RANGE.start + i]],
                 !.ld_op_bits = [i \in DOMAIN ts.ld_op_bits |-> row[LD_OP_BITS_RANGE.start + i]],
                 !.hd_op_bits = [i \in DOMAIN ts.hd_op_bits |-> row[HD_OP_BITS_RANGE.start + i]],
                 !.ctx_stack = [i \in DOMAIN ts.ctx_stack |->
                                   IF i <= ts.ctx_depth THEN row[ctx_stack_start + i]
                                   ELSE ts.ctx_stack[i]],
                 !.loop_stack = [i \in DOMAIN ts.loop_stack |->
                                    IF i <= ts.loop_depth THEN row[ctx_stack_end + i]
                                    ELSE ts.loop_stack[i]],
                 !.user_stack = [i \in DOMAIN ts.user_stack |->
                                    IF i <= ts.stack_depth THEN row[loop_stack_end + i]
                                    ELSE ts.user_stack[i]]]

-----------------------------------------------------------------------------
(* The entry points: Process's block boundaries, which tick the stack      *)
(* machine and call the hasher, and the decoder events of a span's body.   *)

Init ==
    /\ block_stack = <<>>
    /\ span_context = None
    /\ trace = <<>>
    /\ status = "running"
    /\ hasher_addr = FeltOf(HasherFirstAddr)
    /\ hasher_calls = <<>>
    /\ stack_ops = <<>>
    /\ debug_build \in BOOLEAN
    /\ events = <<>>
    /\ executor \in {"any", "program"}
    /\ walker = <<>>
    /\ trace_state = NoTraceState
    /\ view_log = NoCalls

\* Process::start_join_block
StartJoinBlock ==
    \E b \in Joins, ok \in BOOLEAN :
        /\ Running /\ Budget /\ CanStart(b)
        /\ UNCHANGED view_vars
        /\ IF ~ok THEN ReturnErr
           ELSE /\ ExecuteOp("Noop")
                /\ HasherHash(ZeroState)
                /\ start_join(b, hasher_addr)
                /\ Deliver("start_join", b)
                /\ walker' = WalkStart(b, hasher_addr, 0)
                /\ UNCHANGED <<debug_build, executor>>

\* Process::end_join_block
EndJoinBlock ==
    \E b \in Joins, ok \in BOOLEAN :
        /\ Running /\ Budget /\ CanEnd(b)
        /\ UNCHANGED view_vars
        /\ IF ~ok THEN ReturnErr
           ELSE /\ ExecuteOp("Noop")
                /\ end_join(b)
                /\ Deliver("end_join", b)
                /\ walker' = WalkEnd
                /\ UNCHANGED <<hasher_addr, hasher_calls, debug_build, executor>>

\* Process::start_split_block
StartSplitBlock ==
    \E b \in Splits, ok \in BOOLEAN, condition \in {0, 1} :
        /\ Running /\ Budget /\ CanStart(b)
        /\ UNCHANGED view_vars
        /\ IF ~ok THEN ReturnErr
           ELSE /\ ExecuteOp("Drop")
                /\ HasherHash(ZeroState)
                /\ start_split(b, hasher_addr, condition)
                /\ Deliver("start_split", b)
                /\ walker' = WalkStart(b, hasher_addr, condition)
                /\ UNCHANGED <<debug_build, executor>>

\* Process::end_split_block
EndSplitBlock ==
    \E b \in Splits, ok \in BOOLEAN :
        /\ Running /\ Budget /\ CanEnd(b)
        /\ UNCHANGED view_vars
        /\ IF ~ok THEN ReturnErr
           ELSE /\ ExecuteOp("Noop")
                /\ end_split(b)
                /\ Deliver("end_split", b)
                /\ walker' = WalkEnd
                /\ UNCHANGED <<hasher_addr, hasher_calls, debug_build, executor>>

\* Decoder::start_loop delivered by the executor
StartLoop ==
    \E b \in Loops, condition \in {0, 1} :
        /\ Running /\ Budget /\ CanStart(b)
        /\ UNCHANGED view_vars
        /\ loop_event
        /\ Deliver("start_loop", b)
        /\ walker' = WalkStart(b, FeltZERO, condition)
        /\ UNCHANGED <<hasher_addr, hasher_calls, stack_ops, debug_build, executor>>

\* Decoder::repeat delivered by the executor
Repeat ==
    \E b \in Loops :
        /\ Running /\ Budget
        /\ UNCHANGED view_vars
        /\ \/ executor = "any"
           \/ /\ executor = "program" /\ walker # <<>>
              /\ Top(walker).block = b /\ Top(walker).step = 1
              /\ Top(walker).repeats < MaxRepeat
        /\ loop_event
        /\ Deliver("repeat", b)
        /\ walker' = IF executor = "any" THEN walker
                     ELSE [walker EXCEPT ![Len(walker)].step = 0,
                                         ![Len(walker)].repeats = @ + 1]
        /\ UNCHANGED <<hasher_addr, hasher_calls, stack_ops, debug_build, executor>>

\* Decoder::end_loop delivered by the executor
EndLoop ==
    \E b \in Loops :
        /\ Running /\ Budget /\ CanEnd(b)
        /\ UNCHANGED view_vars
        /\ loop_event
        /\ Deliver("end_loop", b)
        /\ walker' = WalkEnd
        /\ UNCHANGED <<hasher_addr, hasher_calls, stack_ops, debug_build, executor>>

\* Process::start_span_block
StartSpanBlock ==
    \E b \in Spans, ok \in BOOLEAN :
        /\ Running /\ Budget /\ CanStart(b)
        /\ UNCHANGED view_vars
        /\ IF ~ok THEN ReturnErr
           ELSE /\ ExecuteOp("Noop")
                /\ HasherHash(SpanState(b))
                /\ start_span(b, hasher_addr)
                /\ Deliver("start_span", b)
                /\ walker' = WalkStart(b, hasher_addr, 0)
                /\ UNCHANGED <<debug_build, executor>>

\* Process::end_span_block
EndSpanBlock ==
    \E b \in Spans, ok \in BOOLEAN :
        /\ Running /\ Budget /\ CanEnd(b)
        /\ UNCHANGED view_vars
        /\ IF ~ok THEN ReturnErr
           ELSE /\ ExecuteOp("Noop")
                /\ end_span(b)
                /\ Deliver("end_span", b)
                /\ walker' = WalkEnd
                /\ UNCHANGED <<hasher_addr, hasher_calls, debug_build, executor>>

\* Decoder::respan delivered by the executor
Respan ==
    \E i \in DOMAIN BatchList : LET op_batch == BatchList[i] IN
        /\ Running /\ Budget
        /\ UNCHANGED view_vars
        /\ \/ executor = "any"
           \/ /\ InSpanWalk /\ BatchDone(Top(walker))
              /\ Top(walker).batch < Len(Blocks[Top(walker).block].op_batches)
              /\ op_batch = Blocks[Top(walker).block].op_batches[Top(walker).batch + 1]
        /\ respan(op_batch)
        /\ Deliver("respan", i)
        /\ walker' = IF executor = "any" THEN walker
                     ELSE [walker EXCEPT ![Len(walker)].batch = @ + 1,
                                         ![Len(walker)].group = 1,
                                         ![Len(walker)].rest = ToInt(op_batch.groups[1])]
        /\ UNCHANGED <<hasher_addr, hasher_calls, stack_ops, debug_build, executor>>

\* Decoder::consume_imm_value delivered by the executor
ConsumeImmValue ==
    /\ Running /\ Budget
    /\ UNCHANGED view_vars
    /\ executor = "any"
    /\ consume_imm_value
    /\ Deliver("consume_imm_value", 0)
    /\ UNCHANGED <<hasher_addr, hasher_calls, stack_ops, debug_build, executor, walker>>

\* Decoder::start_op_group delivered by the executor
StartOpGroup ==
    \E i \in DOMAIN GroupList : LET op_group == GroupList[i] IN
        /\ Running /\ Budget
        /\ UNCHANGED view_vars
        /\ \/ executor = "any"
           \/ /\ InSpanWalk /\ Top(walker).rest = 0
              /\ Top(walker).group < Blocks[Top(walker).block].op_batches[Top(walker).batch].num_groups
              /\ op_group = Blocks[Top(walker).block].op_batches[Top(walker).batch].groups[Top(walker).group + 1]
        /\ start_op_group(op_group)
        /\ Deliver("start_op_group", i)
        /\ walker' = IF executor = "any" THEN walker
                     ELSE [walker EXCEPT ![Len(walker)].group = @ + 1,
                                         ![Len(walker)].rest = ToInt(op_group)]
        /\ UNCHANGED <<hasher_addr, hasher_calls, stack_ops, debug_build, executor>>

\* Decoder::execute_user_op delivered by the executor
ExecuteUserOp ==
    \E i \in DOMAIN OpList : LET op == OpList[i] IN
        /\ Running /\ Budget
        /\ UNCHANGED view_vars
        /\ \/ executor = "any"
           \/ /\ InSpanWalk /\ Top(walker).rest # 0
              /\ ~op.is_decorator
              /\ op.opcode = Top(walker).rest % (2 ^ NUM_OP_BITS)
        /\ execute_user_op(op)
        /\ Deliver("execute_user_op", i)
        /\ walker' = IF executor = "any" THEN walker
                     ELSE [walker EXCEPT ![Len(walker)].rest =
                               (@ - op.opcode) \div (2 ^ NUM_OP_BITS)]
        /\ UNCHANGED <<hasher_addr, hasher_calls, stack_ops, debug_build, executor>>

Next ==
    \/ StartJoinBlock
    \/ EndJoinBlock
    \/ StartSplitBlock
    \/ EndSplitBlock
    \/ StartLoop
    \/ Repeat
    \/ EndLoop
    \/ StartSpanBlock
    \/ EndSpanBlock
    \/ Respan
    \/ ConsumeImmValue
    \/ StartOpGroup
    \/ ExecuteUserOp

Spec == Init /\ [][Next]_vars

-----------------------------------------------------------------------------
(* The trace state view driven by its caller: a TraceState is constructed  *)
(* by new or from_vec, then rows are bound to it by update and the op bits *)
(* written by set_op_bits.                                                 *)

\* the row of the tests: 101, then 1, 2, 3, ...
CountingRow(w) == [i \in 1..w |-> IF i = 1 THEN 101 ELSE i - 1]

\* the control-flow op bits of the rows: every binary triple, and two that
\* are not binary
CfChoices == [1..NUM_CF_OP_BITS -> {0, 1}] \cup {<<-1, -1, 1>>, <<2, 2, 2>>}

\* the five low and two high op bits of the rows
OpBitChoices ==
    {<<0, 0, 0, 0, 0, 0, 0>>, <<1, 1, 1, 1, 1, 1, 1>>, <<1, 1, 1, 1, 1, 1, 0>>,
     <<1, 0, 0, 0, 0, 1, 1>>, <<1, 0, 0, 0, 1, 1, 1>>, <<2, 0, 0, 0, 0, 0, -1>>}

\* the counting row with the op bits cf and ob
MakeRow(w, cf, ob) ==
    [i \in 1..w |->
        IF i > CF_OP_BITS_RANGE.start /\ i <= CF_OP_BITS_RANGE.end
        THEN cf[i - CF_OP_BITS_RANGE.start]
        ELSE IF i > LD_OP_BITS_RANGE.start /\ i <= HD_OP_BITS_RANGE.end
        THEN ob[i - LD_OP_BITS_RANGE.start]
        ELSE CountingRow(w)[i]]

\* the rows of width w given to from_vec and update
RowsOf(w) ==
    {CountingRow(w), Zeros(w)}
        \cup {MakeRow(w, cf, <<1, 0, 0, 0, 0, 1, 1>>) : cf \in CfChoices}
        \cup {MakeRow(w, <<1, 1, 1>>, ob) : ob \in OpBitChoices}

\* the arrays given to set_op_bits
BitsChoices ==
    {Zeros(NUM_VIEW_OP_BITS), <<1, 1, 1, 1, 1, 1, 1, 1, 1, 1>>,
     <<0, 1, 0, 1, 0, 1, 0, 0, 0, 1>>}

ViewInit ==
    /\ block_stack = <<>>
    /\ span_context = None
    /\ trace = <<>>
    /\ status = "running"
    /\ hasher_addr = FeltOf(HasherFirstAddr)
    /\ hasher_calls = <<>>
    /\ stack_ops = <<>>
    /\ debug_build = TRUE
    /\ events = <<>>
    /\ executor = "any"
    /\ walker = <<>>
    /\ trace_state = NoTraceState
    /\ view_log = NoCalls

\* TraceState::new called
TraceStateNew ==
    \E c \in 0..MaxCtxDepth, l \in 0..MaxLoopDepth, d \in 0..MaxStackDepth :
        /\ trace_state = NoTraceState
        /\ trace_state' = New(c, l, d)
        /\ view_log' = [op |-> "new", row |-> <<>>, bits |-> <<>>, updated |-> FALSE]
        /\ UNCHANGED decoder_vars

\* TraceState::from_vec called, with a row of the width of the depths or
\* one cell short
TraceStateFromVec ==
    \E c \in 0..MaxCtxDepth, l \in 0..MaxLoopDepth, d \in 0..MaxStackDepth :
        \E state \in RowsOf(WidthOf(c, l, d)) \cup {CountingRow(WidthOf(c, l, d) - 1)} :
            /\ trace_state = NoTraceState
            /\ trace_state' = FromVec(c, l, d, state)
            /\ view_log' = [op |-> "from_vec", row |-> state, bits |-> <<>>, updated |-> FALSE]
            /\ UNCHANGED decoder_vars

\* TraceState::update called, with a row of the width, one cell longer or
\* one cell short
TraceStateUpdate ==
    /\ trace_state.built
    /\ \E row \in RowsOf(Width(trace_state))
                   \cup {CountingRow(Width(trace_state) + 1),
                         CountingRow(Width(trace_state) - 1)} :
           /\ trace_state' = Update(trace_state, row)
           /\ view_log' = [op |-> "update", row |-> row, bits |-> <<>>, updated |-> TRUE]
           /\ UNCHANGED decoder_vars

\* TraceState::set_op_bits called
TraceStateSetOpBits ==
    \E bits \in BitsChoices :
        /\ trace_state.built
        /\ trace_state' = SetOpBits(trace_state, bits)
        /\ view_log' = [view_log EXCEPT !.op = "set_op_bits", !.bits = bits]
        /\ UNCHANGED decoder_vars

ViewNext ==
    \/ TraceStateNew
    \/ TraceStateFromVec
    \/ TraceStateUpdate
    \/ TraceStateSetOpBits

ViewSpec == ViewInit /\ [][ViewNext]_vars

-----------------------------------------------------------------------------
(* The claims.                                                             *)

\* the events of name e among evs
RECURSIVE CountOf(_, _)
CountOf(evs, names) ==
    IF evs = <<>> THEN 0
    ELSE (IF Head(evs).e \in names THEN 1 ELSE 0) + CountOf(Tail(evs), names)

EventNames == {events[i].e : i \in DOMAIN events}

\* C1: after any sequence of decoder events, every entry of the block stack
\* has parent_addr equal to the addr of the entry immediately below it, and
\* the bottom entry has parent_addr zero.
C1_ParentChain ==
    \A i \in DOMAIN block_stack :
        block_stack[i].parent_addr =
            IF i = 1 THEN FeltZERO ELSE block_stack[i - 1].addr

\* a running decoder with three open blocks, the top one moved by a respan
C1_Witness ==
    /\ status = "running"
    /\ Len(block_stack) = 3
    /\ events[Len(events)].e = "respan"
    /\ block_stack[3].parent_addr = block_stack[2].addr
    /\ block_stack[2].parent_addr # FeltZERO

\* the events the event table gives a row
RowEvents ==
    {"start_join", "end_join", "start_split", "end_split", "start_loop",
     "repeat", "end_loop", "start_span", "respan", "execute_user_op", "end_span"}

\* the operation of the row the event table gives event e
RowOpOf(e) ==
    CASE e = "start_join" -> "JOIN"
      [] e = "start_split" -> "SPLIT"
      [] e = "start_loop" -> "LOOP"
      [] e = "repeat" -> "REPEAT"
      [] e = "start_span" -> "SPAN"
      [] e = "respan" -> "RESPAN"
      [] e = "execute_user_op" -> "USEROP"
      [] OTHER -> "END"

\* the events of evs that are in names, in order
RECURSIVE Only(_, _)
Only(evs, names) ==
    IF evs = <<>> THEN <<>>
    ELSE (IF Head(evs).e \in names THEN <<Head(evs)>> ELSE <<>>) \o Only(Tail(evs), names)

\* C2: after any sequence of events that the decoder completed, the number
\* of rows appended equals the number of row-emitting events delivered
\* (start_join, end_join, start_split, end_split, start_loop, repeat,
\* end_loop, start_span, respan, execute_user_op, end_span), and the rows
\* appear in the order of the events.
C2_RowPerEvent ==
    status = "running" =>
        LET evs == Only(events, RowEvents)
        IN  /\ Len(trace) = Len(evs)
            /\ \A i \in DOMAIN trace :
                   i <= Len(evs) => trace[i].op = RowOpOf(evs[i].e)

\* C3: in a walk of a well-formed program tree, the block stack holds one
\* entry per open block, from the root to the block being executed: the
\* entry of each open block is at the address the block was given at its
\* start, moved on by one hasher cycle per respan.
C3_BlockStackPath ==
    (executor = "program" /\ status = "running") =>
        /\ Len(block_stack) = Len(walker)
        /\ \A i \in DOMAIN block_stack :
               i <= Len(walker) =>
                   ToInt(block_stack[i].addr) =
                       ToInt(walker[i].addr) + HASHER_CYCLE_LEN * (walker[i].batch - 1)

\* the last event delivered
LastEvent == events[Len(events)]

\* this step is the decoder completing event e
Done(e) ==
    /\ Len(events') = Len(events) + 1
    /\ events'[Len(events')].e = e
    /\ status' = "running"

\* C4: from a group value g in the span context, after execute_user_op for
\* opcodes o1..ok, each the low-order 7-bit opcode of the current value,
\* group_ops_left is the value got by applying v -> (v - oi) / 2^7
\* successively to g; g = 1 + 2^7*2 + 2^14*3 with opcodes 1, 2, 3 gives
\* 2 + 2^7*3, then 3, then 0.
C4_OpcodeAlgebra ==
    /\ [](InSpanWalk /\ status = "running" =>
            /\ IsSmall(span_context.group_ops_left)
            /\ ToInt(span_context.group_ops_left) = Top(walker).rest)
    /\ [][(/\ Done("execute_user_op")
           /\ IsSmall(span_context.group_ops_left)
           /\ OpList[events'[Len(events')].arg].opcode =
                  ToInt(span_context.group_ops_left) % (2 ^ 7))
          => /\ IsSmall(span_context'.group_ops_left)
             /\ (2 ^ 7) * ToInt(span_context'.group_ops_left) =
                    ToInt(span_context.group_ops_left)
                        - OpList[events'[Len(events')].arg].opcode]_vars

\* the group 1 + 2^7*2 + 2^14*3 after the opcodes 1, 2 and 3
C4_Witness ==
    /\ status = "running"
    /\ Len(trace) = 4
    /\ trace[1].op = "SPAN" /\ trace[1].groups[1] = FeltOf(1 + 128 * 2 + 16384 * 3)
    /\ trace[2].op = "USEROP" /\ trace[2].user_op = Op(1)
    /\ trace[2].group_ops_left = FeltOf(2 + 128 * 3)
    /\ trace[3].op = "USEROP" /\ trace[3].user_op = Op(2)
    /\ trace[3].group_ops_left = FeltOf(3)
    /\ trace[4].op = "USEROP" /\ trace[4].user_op = Op(3)
    /\ trace[4].group_ops_left = FeltOf(0)
    /\ span_context # None /\ span_context.group_ops_left = FeltZERO

\* a start_span is the last of the start_span and end_span events of evs
RECURSIVE SpanOpenAfter(_)
SpanOpenAfter(evs) ==
    IF evs = <<>> THEN FALSE
    ELSE LET last == evs[Len(evs)]
         IN  CASE last.e = "start_span" -> TRUE
               [] last.e = "end_span" -> FALSE
               [] OTHER -> SpanOpenAfter(SubSeq(evs, 1, Len(evs) - 1))

\* C5: a SpanContext exists if and only if the decoder is inside a span:
\* start_span creates it, respan keeps it, end_span removes it and no other
\* event creates or removes it; in a program walk it exists exactly while
\* the block being executed is a span.
C5_SpanContextPresence ==
    status = "running" =>
        /\ (span_context # None) <=> SpanOpenAfter(events)
        /\ executor = "program" => ((span_context # None) <=> InSpanWalk)

\* a second span of the run, after a respan: the context is present again
C5_Witness ==
    /\ status = "running"
    /\ Len(events) >= 4
    /\ LastEvent.e = "respan"
    /\ CountOf(events, {"end_span"}) = 1
    /\ CountOf(events, {"start_span"}) = 2
    /\ span_context # None

\* C6: each respan replaces the top entry of the block stack by one whose
\* addr is the old addr plus 8, with the depth, the entry's parent_addr and
\* the lower entries unchanged; so after k respans in a span started at
\* address A the span's entry has addr A + 8*k, and that is the entry
\* end_span pops.
C6_RespanAddress ==
    /\ [][Done("respan") =>
            /\ Len(block_stack') = Len(block_stack)
            /\ ToInt(Peek(block_stack').addr) = ToInt(Peek(block_stack).addr) + 8
            /\ Peek(block_stack').parent_addr = Peek(block_stack).parent_addr
            /\ \A i \in 1..(Len(block_stack) - 1) : block_stack'[i] = block_stack[i]]_vars
    /\ [](InSpanWalk /\ status = "running" =>
            /\ IsSmall(Peek(block_stack).addr)
            /\ ToInt(Peek(block_stack).addr) =
                   ToInt(Top(walker).addr) + 8 * (Top(walker).batch - 1))
    /\ [][(Done("end_span") /\ executor = "program") =>
            /\ block_stack' = Pop(block_stack)
            /\ ToInt(Peek(block_stack).addr) =
                   ToInt(Top(walker).addr)
                       + 8 * (Len(Blocks[Top(walker).block].op_batches) - 1)]_vars

\* a span of two batches about to end: its entry is one cycle on from the
\* address of its start
C6_Witness ==
    /\ status = "running"
    /\ InSpanWalk
    /\ Top(walker).batch = 2
    /\ BatchDone(Top(walker))
    /\ CountOf(events, {"respan"}) = 1
    /\ ToInt(Peek(block_stack).addr) = ToInt(Top(walker).addr) + 8
    /\ Len(block_stack) >= 2

\* the start event that an end event matches
StartOf(e) ==
    CASE e = "end_join" -> "start_join"
      [] e = "end_split" -> "start_split"
      [] e = "end_span" -> "start_span"
      [] OTHER -> "none"

\* the nesting after the first n events of evs: the places in evs of the
\* starts not yet ended, the outermost first; ok is false once an event is
\* out of place (an end that matches no start, a loop event, a start or an
\* end of a control block inside a span, a span event outside a span)
RECURSIVE Nesting(_, _)
Nesting(evs, n) ==
    IF n = 0 THEN [ok |-> TRUE, open |-> <<>>]
    ELSE LET prev == Nesting(evs, n - 1)
             ev == evs[n]
             inSpan == prev.open # <<>> /\ evs[Top(prev.open)].e = "start_span"
         IN  IF ~prev.ok THEN prev
             ELSE IF ev.e \in {"start_join", "start_split", "start_span"} /\ ~inSpan
             THEN [ok |-> TRUE, open |-> Append(prev.open, n)]
             ELSE IF /\ ev.e \in {"end_join", "end_split", "end_span"}
                     /\ prev.open # <<>>
                     /\ evs[Top(prev.open)].e = StartOf(ev.e)
                     /\ evs[Top(prev.open)].arg = ev.arg
             THEN [ok |-> TRUE, open |-> Pop(prev.open)]
             ELSE IF /\ ev.e \in {"respan", "start_op_group", "consume_imm_value",
                                  "execute_user_op"}
                     /\ inSpan
             THEN prev
             ELSE [ok |-> FALSE, open |-> <<>>]

\* the address the hasher gave the block started by the n-th event: one
\* hasher cycle per block started before
AllocAddr(evs, n) ==
    FeltOf(HasherFirstAddr
           + 8 * CountOf(SubSeq(evs, 1, n - 1), {"start_join", "start_split", "start_span"}))

\* the row the claim gives the n-th event, a start or an end of a join or split
ControlRow(evs, n) ==
    LET ev == evs[n]
        b == Blocks[ev.arg]
        open == Nesting(evs, n - 1).open
        parent == IF open = <<>> THEN FeltZERO ELSE AllocAddr(evs, Top(open))
    IN  CASE ev.e = "start_join" ->
                 [op |-> "JOIN", addr |-> parent,
                  h1 |-> Blocks[b.first].hash, h2 |-> Blocks[b.second].hash]
          [] ev.e = "start_split" ->
                 [op |-> "SPLIT", addr |-> parent,
                  h1 |-> Blocks[b.on_true].hash, h2 |-> Blocks[b.on_false].hash]
          [] OTHER ->
                 [op |-> "END", addr |-> AllocAddr(evs, Top(open)),
                  h1 |-> b.hash, h2 |-> <<FeltOf(0), FeltOf(0), FeltOf(0), FeltOf(0)>>]

\* C7: in a well-nested sequence of starts and ends of joins and splits
\* (spans as their leaves), the row of a start event carries the parent
\* address (the addr of the enclosing open block, zero at the root), the
\* JOIN or SPLIT opcode and the two child hashes; the row of the matching
\* end event carries the address given at the block's own start, the END
\* opcode, the block's hash and a zero word.
C7_ControlRows ==
    (status = "running" /\ Nesting(events, Len(events)).ok) =>
        /\ Len(trace) = Len(Only(events, RowEvents))
        /\ \A n \in DOMAIN events :
               events[n].e \in {"start_join", "end_join", "start_split", "end_split"} =>
                   trace[Len(Only(SubSeq(events, 1, n), RowEvents))] = ControlRow(events, n)

\* the end of a block opened inside another one: its row carries the
\* address of its own start, not the root's
C7_Witness ==
    /\ status = "running"
    /\ events # <<>>
    /\ Nesting(events, Len(events)).ok
    /\ LastEvent.e \in {"end_join", "end_split"}
    /\ Len(Nesting(events, Len(events)).open) = 1
    /\ trace[Len(trace)].op = "END"
    /\ trace[Len(trace)].addr # FeltOf(HasherFirstAddr)
    /\ trace[Len(trace)].h2 = ZeroWord

RoundedGroups(n) ==
    IF n <= 1 THEN 1 ELSE IF n <= 2 THEN 2 ELSE IF n <= 4 THEN 4 ELSE 8

\* the groups of all the batches of span b, each batch rounded
RECURSIVE SpanGroups(_, _)
SpanGroups(b, k) ==
    IF k = 0 THEN 0
    ELSE RoundedGroups(Blocks[b].op_batches[k].num_groups) + SpanGroups(b, k - 1)

\* the place in evs of the last start_span, 0 when none
RECURSIVE LastStartSpan(_, _)
LastStartSpan(evs, n) ==
    IF n = 0 THEN 0
    ELSE IF evs[n].e = "start_span" THEN n ELSE LastStartSpan(evs, n - 1)

C10_ContextOnlyEvents ==
    /\ [][Done("consume_imm_value") =>
            /\ trace' = trace /\ block_stack' = block_stack
            /\ span_context'.group_ops_left = span_context.group_ops_left
            /\ FeltAdd(span_context'.num_groups_left, <<1, 0, 0, 0>>) =
                   span_context.num_groups_left]_vars
    /\ [][Done("start_op_group") =>
            /\ trace' = trace /\ block_stack' = block_stack
            /\ span_context'.group_ops_left = GroupList[events'[Len(events')].arg]
            /\ FeltAdd(span_context'.num_groups_left, <<1, 0, 0, 0>>) =
                   span_context.num_groups_left]_vars

\* a start_op_group and a consume_imm_value in one span, no row for either
C10_Witness ==
    /\ status = "running" /\ span_context # None
    /\ Len(events) = 3 /\ Len(trace) = 1 /\ Len(block_stack) = 1
    /\ events[1].e = "start_span" /\ events[1].arg = 2
    /\ events[2].e = "start_op_group"
    /\ events[3].e = "consume_imm_value"
    /\ span_context.group_ops_left = GroupList[events[2].arg]
    /\ span_context.num_groups_left = FeltOf(5)

\* the events of a span's body and its end, which need the span context
SpanContextEvents ==
    {"respan", "start_op_group", "consume_imm_value", "execute_user_op", "end_span"}

\* C11: each of respan, start_op_group, consume_imm_value, execute_user_op
\* and end_span, delivered while the span context is absent, ends the run
\* with a fatal failure: it does not complete.
C11_MissingContextFatal ==
    [][(/\ Len(events') = Len(events) + 1
        /\ events'[Len(events')].e \in SpanContextEvents
        /\ span_context = None)
       => status' = "panicked"]_vars

\* C12: when execute_op fails inside a block-boundary entry point, the
\* error is returned to the caller, the hasher is not called, the block
\* stack and the span context are unchanged and no row is appended.
C12_ErrorLeavesDecoderUntouched ==
    [][status' = "error" =>
         /\ status = "running"
         /\ hasher_calls' = hasher_calls /\ hasher_addr' = hasher_addr
         /\ block_stack' = block_stack
         /\ span_context' = span_context
         /\ trace' = trace
         /\ events' = events]_vars

\* an entry point failing inside a span opened under a join: the two hasher
\* calls, the two entries, the context and the three rows made before stay
C12_Witness ==
    /\ status = "error"
    /\ Len(events) = 3 /\ events[3].e = "execute_user_op"
    /\ Len(hasher_calls) = 2
    /\ Len(block_stack) = 2
    /\ span_context # None
    /\ Len(trace) = 3

\* the events of the block-boundary entry points of Process
BoundaryEvents ==
    {"start_join", "end_join", "start_split", "end_split", "start_span", "end_span"}

\* C13: every successful block-boundary entry point executes exactly one
\* operation on the stack machine, Drop for start_split_block and Noop for
\* the five others, and appends exactly one row; so after any sequence of
\* such calls the number of stack operations executed equals the number of
\* rows appended.
C13_OneStackOpPerBoundary ==
    /\ [][\A e \in BoundaryEvents :
             Done(e) =>
                 /\ stack_ops' = Append(stack_ops, IF e = "start_split" THEN "Drop" ELSE "Noop")
                 /\ Len(trace') = Len(trace) + 1]_vars
    /\ []((status = "running" /\ EventNames \subseteq BoundaryEvents) =>
             Len(stack_ops) = Len(trace))

\* four boundaries crossed, a split's start among them: four operations,
\* one of them the Drop, and four rows
C13_Witness ==
    /\ status = "running"
    /\ Len(events) = 4 /\ EventNames \subseteq BoundaryEvents
    /\ "start_split" \in EventNames /\ "end_span" \in EventNames
    /\ Len(stack_ops) = 4 /\ Len(trace) = 4
    /\ Len(SelectSeq(stack_ops, LAMBDA o : o = "Drop")) = 1

\* the elements of a hasher input
InputElements(state) == {state[i] : i \in DOMAIN state}

\* the elements of the hashes of the two children of join or split b
ChildrenHashElements(b) ==
    LET blk == Blocks[b]
        c1 == IF blk.kind = "Join" THEN blk.first ELSE blk.on_true
        c2 == IF blk.kind = "Join" THEN blk.second ELSE blk.on_false
    IN  {Blocks[c1].hash[k] : k \in 1..4} \cup {Blocks[c2].hash[k] : k \in 1..4}

\* C14: each start of a JOIN, SPLIT or SPAN block calls hasher.hash exactly
\* once, end events and respan never; the input has 12 elements, holds the
\* two children hashes for JOIN and SPLIT, and is the 8 groups of the first
\* op batch followed by four zeros for SPAN; the address returned by the
\* call is the addr pushed on the block stack.
C14_HasherInputs ==
    [][\A e \in RowEvents \ {"start_loop", "repeat", "end_loop"} :
         Done(e) =>
             LET b == events'[Len(events')].arg
                 input == hasher_calls'[Len(hasher_calls')]
             IN  IF e \in {"start_join", "start_split", "start_span"}
                 THEN /\ Len(hasher_calls') = Len(hasher_calls) + 1
                      /\ DOMAIN input = 1..12
                      /\ Peek(block_stack').addr = hasher_addr
                      /\ e # "start_span" => ChildrenHashElements(b) \subseteq InputElements(input)
                      /\ e = "start_span" =>
                             \A i \in 1..12 :
                                 input[i] = IF i <= 8 THEN Blocks[b].op_batches[1].groups[i]
                                            ELSE FeltOf(0)
                 ELSE hasher_calls' = hasher_calls]_vars

\* the kind of block an end event (or a repeat) needs on top
KindOf(e) ==
    CASE e \in {"start_join", "end_join"} -> "Join"
      [] e \in {"start_split", "end_split"} -> "Split"
      [] e \in {"start_loop", "repeat", "end_loop"} -> "Loop"
      [] OTHER -> "Span"

\* the first n events of evs against the preconditions of the event table:
\* the kinds of the blocks open, whether a span is active, and ok, false
\* once an event was delivered without its precondition (start_join,
\* start_split and start_loop have none)
RECURSIVE TableState(_, _)
TableState(evs, n) ==
    IF n = 0 THEN [ok |-> TRUE, kinds |-> <<>>, span |-> FALSE]
    ELSE LET prev == TableState(evs, n - 1)
             e == evs[n].e
             bad == [ok |-> FALSE, kinds |-> <<>>, span |-> FALSE]
             topIs == prev.kinds # <<>> /\ Top(prev.kinds) = KindOf(e)
         IN  IF ~prev.ok THEN prev
             ELSE CASE e \in {"start_join", "start_split", "start_loop"} ->
                           [prev EXCEPT !.kinds = Append(@, KindOf(e))]
                    [] e \in {"end_join", "end_split", "end_loop"} ->
                           IF topIs THEN [prev EXCEPT !.kinds = Pop(@)] ELSE bad
                    [] e = "repeat" -> IF topIs THEN prev ELSE bad
                    [] e = "start_span" ->
                           IF ~prev.span
                           THEN [prev EXCEPT !.kinds = Append(@, "Span"), !.span = TRUE]
                           ELSE bad
                    [] e = "end_span" ->
                           IF prev.span
                           THEN [prev EXCEPT !.kinds = Pop(@), !.span = FALSE]
                           ELSE bad
                    [] OTHER -> IF prev.span THEN prev ELSE bad

\* every event delivered so far had its precondition of the event table
TableOk(evs) == TableState(evs, Len(evs)).ok

\* C19: in a run whose events satisfy the preconditions of the event table,
\* once an execute_user_op has brought group_ops_left to zero inside a
\* span, the next event the decoder accepts is start_op_group, respan or
\* end_span: no execute_user_op, start_join, start_split or start_span.
C19_GroupExhaustionOrdering ==
    [][(/\ status = "running" /\ span_context # None
        /\ span_context.group_ops_left = FeltOf(0)
        /\ events # <<>> /\ LastEvent.e = "execute_user_op"
        /\ Len(events') = Len(events) + 1
        /\ TableOk(events')
        /\ status' = "running")
       => events'[Len(events')].e \in {"start_op_group", "respan", "end_span"}]_vars

\* C20: in every state reached by events that satisfy the preconditions of
\* the event table (start_join and start_split allowed in any state), a
\* present span context implies that the block stack is non-empty and its
\* top entry is the one pushed by the span's start_span, moved on only by
\* respans; an empty block stack implies that no span context is present.
C20_StateDetermined ==
    (status = "running" /\ TableOk(events)
       /\ EventNames \cap {"start_loop", "repeat", "end_loop"} = {}) =>
        /\ span_context # None =>
               LET j == LastStartSpan(events, Len(events))
                   since == SubSeq(events, j + 1, Len(events))
               IN  /\ block_stack # <<>>
                   /\ Peek(block_stack).addr =
                          FeltAdd(AllocAddr(events, j), FeltOf(8 * CountOf(since, {"respan"})))
        /\ block_stack = <<>> => span_context = None

\* C15: for any depths and any row x of the width for those depths,
\* from_vec(depths, x).to_vec() equals x, and the length of to_vec()
\* equals width() = 15 + ctx_depth + loop_depth + stack_depth: the padding
\* cells are not emitted.
C15_ViewRoundTrip ==
    (trace_state.built /\ view_log.op = "from_vec") =>
        /\ ToVec(trace_state) = view_log.row
        /\ Len(ToVec(trace_state)) = Width(trace_state)
        /\ Width(trace_state) =
               15 + trace_state.ctx_depth + trace_state.loop_depth + trace_state.stack_depth

\* depths (0, 0, 2) and the row 101, 1, .., 16: the stacks are padded to
\* one, one and eight cells, and to_vec gives the 17 cells back
C15_Witness ==
    /\ trace_state.built /\ view_log.op = "from_vec"
    /\ trace_state.ctx_depth = 0 /\ trace_state.loop_depth = 0
    /\ trace_state.stack_depth = 2
    /\ view_log.row = <<101, 1, 2, 3, 4, 5, 6, 7, 8, 9, 10, 11, 12, 13, 14, 15, 16>>
    /\ trace_state.ctx_stack = <<0>> /\ trace_state.loop_stack = <<0>>
    /\ trace_state.user_stack = <<15, 16, 0, 0, 0, 0, 0, 0>>
    /\ Len(ToVec(trace_state)) = 17

\* C16 as stated: for every assignment of field elements to the three
\* control-flow op bits, get_void_op_flag() equals 1 if and only if
\* cf_op_bits = [1, 1, 1].
C16_VoidFlagIff ==
    trace_state.built =>
        (GetVoidOpFlag(trace_state) = 1 <=> trace_state.cf_op_bits = <<1, 1, 1>>)

\* C16 amended: when each of the three control-flow op bits is 0 or 1,
\* get_void_op_flag() is 1 if cf_op_bits = [1, 1, 1] and 0 otherwise; for
\* other field elements it is their product, which is 1 for [-1, -1, 1].
C16_VoidFlagBinary ==
    trace_state.built =>
        /\ (\A i \in 1..3 : trace_state.cf_op_bits[i] \in {0, 1}) =>
               GetVoidOpFlag(trace_state) =
                   IF trace_state.cf_op_bits = <<1, 1, 1>> THEN 1 ELSE 0
        /\ trace_state.cf_op_bits = <<-1, -1, 1>> => GetVoidOpFlag(trace_state) = 1
        /\ trace_state.cf_op_bits = <<2, 2, 2>> => GetVoidOpFlag(trace_state) = 8

\* a row bound by update whose control-flow bits are 1, 1, 1: the flag is 1
C16_Witness ==
    /\ trace_state.built /\ view_log.op = "update"
    /\ trace_state.cf_op_bits = <<1, 1, 1>>
    /\ GetVoidOpFlag(trace_state) = 1

\* the view ts with the five low and two high op bits b
WithOpBits(ts, b) ==
    [ts EXCEPT !.ld_op_bits = SubSeq(b, 1, 5), !.hd_op_bits = SubSeq(b, 6, 7)]

\* op_code() is the weighted sum of the seven bits, whatever the other
\* regions hold, and maps the binary values of the bits one to one onto 0..127
OpCodeLaws(ts) ==
    /\ LET b == ts.ld_op_bits \o ts.hd_op_bits
       IN  OpCode(ts) =
               b[1] + 2 * (b[2] + 2 * (b[3] + 2 * (b[4] + 2 * (b[5] + 2 * (b[6] + 2 * b[7])))))
    /\ \A cf \in CfChoices :
           OpCode([ts EXCEPT !.cf_op_bits = cf, !.op_counter = 0,
                             !.sponge = Zeros(SPONGE_WIDTH),
                             !.user_stack = Zeros(Len(ts.user_stack))]) = OpCode(ts)
    /\ {OpCode(WithOpBits(ts, b)) : b \in [1..7 -> {0, 1}]} = 0..127
    /\ (ts.ld_op_bits = <<1, 1, 1, 1, 1>> /\ ts.hd_op_bits = <<1, 1>>) => OpCode(ts) = 127
    /\ (ts.ld_op_bits = <<1, 1, 1, 1, 1>> /\ ts.hd_op_bits = <<1, 0>>) => OpCode(ts) = 63

\* C17 as stated: op_code() equals ld[0] + 2*ld[1] + 4*ld[2] + 8*ld[3] +
\* 16*ld[4] + 32*hd[0] + 64*hd[1], does not depend on any other region, is
\* one to one from the binary values of the 7 bits onto 0..127, all ones
\* gives 127, hd = [1,0] with ld all ones gives 63, and ld = [1,0,0,0,1]
\* with hd = [1,1] gives 97.
C17_OpcodeReconstruction ==
    trace_state.built =>
        /\ OpCodeLaws(trace_state)
        /\ (trace_state.ld_op_bits = <<1, 0, 0, 0, 1>> /\ trace_state.hd_op_bits = <<1, 1>>)
               => OpCode(trace_state) = 97

\* C17 amended: the same, with the third example put right: it is
\* ld = [1,0,0,0,0] with hd = [1,1] that gives 97; ld = [1,0,0,0,1] with
\* hd = [1,1] gives 113.
C17_OpcodeReconstructionFixed ==
    trace_state.built =>
        /\ OpCodeLaws(trace_state)
        /\ (trace_state.ld_op_bits = <<1, 0, 0, 0, 0>> /\ trace_state.hd_op_bits = <<1, 1>>)
               => OpCode(trace_state) = 97
        /\ (trace_state.ld_op_bits = <<1, 0, 0, 0, 1>> /\ trace_state.hd_op_bits = <<1, 1>>)
               => OpCode(trace_state) = 113

\* the row of the tests with low bits 1,0,0,0,0 and high bits 1,1: 97
C17_Witness ==
    /\ trace_state.built /\ view_log.op = "from_vec"
    /\ trace_state.cf_op_bits = <<1, 1, 1>>
    /\ trace_state.ld_op_bits = <<1, 0, 0, 0, 0>> /\ trace_state.hd_op_bits = <<1, 1>>
    /\ OpCode(trace_state) = 97

\* the last row bound to the view, a row of zeros when none was
BoundRow(ts) ==
    IF view_log.row = <<>> THEN Zeros(Width(ts)) ELSE view_log.row

\* the stack regions of ts keep their layout: the first depth cells are
\* the row's, the lengths are the depths raised to the minima, and every
\* cell at or beyond the depth is zero
LayoutKept(ts, row) ==
    /\ ts.op_counter = row[1]
    /\ ts.sponge = SubSeq(row, 2, 5)
    /\ \A i \in 1..ts.ctx_depth : ts.ctx_stack[i] = row[15 + i]
    /\ \A i \in 1..ts.loop_depth : ts.loop_stack[i] = row[15 + ts.ctx_depth + i]
    /\ \A i \in 1..ts.stack_depth :
           ts.user_stack[i] = row[15 + ts.ctx_depth + ts.loop_depth + i]
    /\ Len(ts.ctx_stack) = (IF ts.ctx_depth > 1 THEN ts.ctx_depth ELSE 1)
    /\ Len(ts.loop_stack) = (IF ts.loop_depth > 1 THEN ts.loop_depth ELSE 1)
    /\ Len(ts.user_stack) = (IF ts.stack_depth > 8 THEN ts.stack_depth ELSE 8)
    /\ \A i \in (ts.ctx_depth + 1)..Len(ts.ctx_stack) : ts.ctx_stack[i] = 0
    /\ \A i \in (ts.loop_depth + 1)..Len(ts.loop_stack) : ts.loop_stack[i] = 0
    /\ \A i \in (ts.stack_depth + 1)..Len(ts.user_stack) : ts.user_stack[i] = 0

\* update and set_op_bits leave the depths and width() as they were
WidthKept ==
    [][(trace_state.built /\ trace_state'.built) =>
          /\ Width(trace_state') = Width(trace_state)
          /\ trace_state'.ctx_depth = trace_state.ctx_depth
          /\ trace_state'.loop_depth = trace_state.loop_depth
          /\ trace_state'.stack_depth = trace_state.stack_depth]_vars

\* C18 as stated: after any sequence of update and set_op_bits calls on a
\* TraceState of depths (c, l, s), op_counter, sponge and the three op-bit
\* regions hold the cells of the last row, the first c / l / s cells of the
\* stacks hold the row's, the lengths of the stacks stay max(c, 1),
\* max(l, 1), max(s, 8), every stack cell at or beyond the depth is zero,
\* and width() is unchanged.
C18_UpdateKeepsLayout ==
    /\ []((trace_state.built /\ view_log.updated) =>
             /\ LayoutKept(trace_state, view_log.row)
             /\ trace_state.cf_op_bits = SubSeq(view_log.row, 6, 8)
             /\ trace_state.ld_op_bits = SubSeq(view_log.row, 9, 13)
             /\ trace_state.hd_op_bits = SubSeq(view_log.row, 14, 15))
    /\ WidthKept

\* C18 amended: the same, except that each of the three op-bit regions
\* holds the bits of the last set_op_bits call when one was made after the
\* last row was bound, and the cells of that row otherwise (a TraceState
\* made by new, with no row bound yet, holds zeros).
C18_UpdateKeepsLayoutBits ==
    /\ [](trace_state.built =>
             LET row == BoundRow(trace_state)
                 bits == IF view_log.bits = <<>> THEN SubSeq(row, 6, 15) ELSE view_log.bits
             IN  /\ LayoutKept(trace_state, row)
                 /\ trace_state.cf_op_bits = SubSeq(bits, 1, 3)
                 /\ trace_state.ld_op_bits = SubSeq(bits, 4, 8)
                 /\ trace_state.hd_op_bits = SubSeq(bits, 9, 10))
    /\ WidthKept

\* new(2, 1, 3), then the row 101, 1, .., 20 bound by update, then
\* set_op_bits: the user stack is 18, 19, 20 and five zeros, the op bits
\* are the ones set
C18_Witness ==
    /\ trace_state.built /\ view_log.op = "set_op_bits" /\ view_log.updated
    /\ trace_state.ctx_depth = 2 /\ trace_state.loop_depth = 1
    /\ trace_state.stack_depth = 3
    /\ trace_state.op_counter = 101
    /\ trace_state.ctx_stack = <<15, 16>> /\ trace_state.loop_stack = <<17>>
    /\ trace_state.user_stack = <<18, 19, 20, 0, 0, 0, 0, 0>>
    /\ trace_state.cf_op_bits = <<0, 1, 0>>
    /\ trace_state.hd_op_bits = <<0, 1>>
    /\ Width(trace_state) = 21

\* the last SPAN row among the first n rows: the row of the span's start,
\* which carries the parent address the span was pushed with
RECURSIVE LastSpanRow(_, _)
LastSpanRow(rows, n) ==
    IF rows[n].op = "SPAN" THEN rows[n] ELSE LastSpanRow(rows, n - 1)

\* C21: every row appended by execute_user_op carries the addr and the
\* parent_addr of the top entry of the block stack (in a program walk,
\* after k respans, the address of the span's start plus 8*k and the
\* parent address the span was started with), the current
\* num_groups_left and the group_ops_left left once the opcode executed is
\* removed; execute_user_op leaves the block stack and num_groups_left
\* unchanged.
C21_UserOpRow ==
    [][Done("execute_user_op") =>
         LET row == trace'[Len(trace')]
             op == OpList[events'[Len(events')].arg]
         IN  /\ Len(trace') = Len(trace) + 1
             /\ row.op = "USEROP" /\ row.user_op = op
             /\ row.addr = Peek(block_stack).addr
             /\ row.parent_addr = Peek(block_stack).parent_addr
             /\ row.num_groups_left = span_context.num_groups_left
             /\ row.group_ops_left = span_context'.group_ops_left
             /\ row.group_ops_left =
                    FeltNew(U64Shr(U64Sub(span_context.group_ops_left, FeltOf(op.opcode)).val))
             /\ block_stack' = block_stack
             /\ span_context'.num_groups_left = span_context.num_groups_left
             /\ executor = "program" =>
                    /\ row.addr = FeltAdd(Top(walker).addr, FeltOf(8 * (Top(walker).batch - 1)))
                    /\ row.parent_addr = LastSpanRow(trace, Len(trace)).addr]_vars

\* an operation executed after a respan in a span under a join: its row
\* carries the span's address moved on by 8 and the join's address
C21_Witness ==
    /\ status = "running" /\ executor = "program"
    /\ events # <<>> /\ LastEvent.e = "execute_user_op"
    /\ Len(walker) >= 2 /\ Top(walker).batch = 2
    /\ trace[Len(trace)].op = "USEROP"
    /\ trace[Len(trace)].addr = FeltAdd(Top(walker).addr, FeltOf(8))
    /\ trace[Len(trace)].parent_addr = LastSpanRow(trace, Len(trace)).addr
    /\ trace[Len(trace)].parent_addr = walker[Len(walker) - 1].addr
    /\ trace[Len(trace)].parent_addr # FeltOf(0)
    /\ trace[Len(trace)].num_groups_left = span_context.num_groups_left

\* the events that give a block or a span batch its address
AddressEvents == {"start_join", "start_split", "start_span", "respan"}

\* the address given by the n-th event: the hasher's for the start of a
\* block, the span's moved on by one cycle per respan for a batch
GivenAddr(evs, n) ==
    IF evs[n].e = "respan"
    THEN LET j == LastStartSpan(evs, n)
         IN  FeltAdd(AllocAddr(evs, j),
                     FeltOf(8 * CountOf(SubSeq(evs, j + 1, n), {"respan"})))
    ELSE AllocAddr(evs, n)

\* C22: with a hasher whose addresses advance by one 8-row cycle per hash
\* call, over the event sequence of any program walk (joins, splits and
\* spans) no two distinct blocks or span batches are given the same
\* address: the address of a span after a respan is never the address of a
\* block started later.
C22_AddressIdentity ==
    (status = "running" /\ executor = "program" /\ Nesting(events, Len(events)).ok) =>
        \A m, n \in DOMAIN events :
            (m < n /\ events[m].e \in AddressEvents /\ events[n].e \in AddressEvents)
                => GivenAddr(events, m) # GivenAddr(events, n)

\* C23: over a well-nested sequence of events of joins, splits and spans
\* (every end matching the last open start, respans and operations only
\* inside spans), at every prefix the depth of the block stack is the
\* number of start events minus the number of end events delivered, which
\* respan, start_op_group, consume_imm_value and execute_user_op leave
\* unchanged; once every start is matched by its end, and so after the
\* whole walk of a program, the block stack is empty and the span context
\* is absent.
C23_BalancedRuns ==
    /\ []((status = "running" /\ Nesting(events, Len(events)).ok) =>
             /\ Len(block_stack) =
                    CountOf(events, {"start_join", "start_split", "start_span"})
                        - CountOf(events, {"end_join", "end_split", "end_span"})
             /\ Len(block_stack) = Len(Nesting(events, Len(events)).open)
             /\ Nesting(events, Len(events)).open = <<>> =>
                    (block_stack = <<>> /\ span_context = None)
             /\ (executor = "program" /\ walker = <<>>) =>
                    (block_stack = <<>> /\ span_context = None))
    /\ [][(\E e \in {"respan", "start_op_group", "consume_imm_value", "execute_user_op"} :
              Done(e))
           => Len(block_stack') = Len(block_stack)]_vars

\* the whole walk of a split over a join of two spans, one of two batches:
\* three blocks deep on the way, idle at the end
C23_Witness ==
    /\ status = "running" /\ executor = "program"
    /\ events # <<>> /\ walker = <<>>
    /\ Nesting(events, Len(events)).ok
    /\ events[1].e = "start_split" /\ LastEvent.e = "end_split"
    /\ CountOf(events, {"start_join", "start_split", "start_span"}) = 4
    /\ CountOf(events, {"end_join", "end_split", "end_span"}) = 4
    /\ CountOf(events, {"respan"}) = 1
    /\ block_stack = <<>> /\ span_context = None

\* C24: for a TraceState built with depths d by new or from_vec, after any
\* earlier updates and set_op_bits, and any row x of the width of d, the
\* state after update(x) equals, field by field, from_vec(d, x): the
\* counter, the sponge, the op bits, the three stacks with their padding,
\* and the depths.
C24_UpdateIsFromVec ==
    /\ [][(/\ trace_state.built
            /\ view_log'.op = "update"
            /\ Len(view_log'.row) = Width(trace_state))
           => trace_state' = FromVec(trace_state.ctx_depth, trace_state.loop_depth,
                                     trace_state.stack_depth, view_log'.row)]_vars
    /\ []((/\ trace_state.built
            /\ view_log.op = "update"
            /\ Len(view_log.row) = Width(trace_state))
           => trace_state = FromVec(trace_state.ctx_depth, trace_state.loop_depth,
                                    trace_state.stack_depth, view_log.row))

\* a state of depths (1, 2, 9), one more than the minimum stack depth,
\* updated with the counting row: the stacks hold the row's last twelve
\* cells and the state is the one from_vec builds
C24_Witness ==
    /\ trace_state.built
    /\ view_log.op = "update"
    /\ trace_state.ctx_depth = 1 /\ trace_state.loop_depth = 2
    /\ trace_state.stack_depth = 9
    /\ view_log.row = CountingRow(WidthOf(1, 2, 9))
    /\ trace_state.ctx_stack = <<15>>
    /\ trace_state.loop_stack = <<16, 17>>
    /\ trace_state.user_stack = <<18, 19, 20, 21, 22, 23, 24, 25, 26>>
    /\ trace_state = FromVec(1, 2, 9, view_log.row)

=============================================================================
